---- MODULE Spec2Model ----
(***************************************************************************)
(* Model of apps/docs/components/preview/index.tsx: the Preview component  *)
(* resolves the shadcn components a demo refers to, collects their files   *)
(* and package dependencies, and hands both to the sandbox provider.       *)
(*                                                                         *)
(* Strings.  A string is a sequence of lexemes.  The characters the        *)
(* regular expressions of the source look at ("@", "/", the quotes, white  *)
(* space, the line terminator) are lexemes of their own; every other       *)
(* lexeme ("registry", "ui", "icon", "1.2.3", ...) is a non-empty run of   *)
(* ordinary characters.  String concatenation is \o, the empty string <<>>.*)
(***************************************************************************)
EXTENDS Naturals, Sequences, FiniteSets, Bags, TLC

VARIABLES
  \* ---- Preview (one call) ----
  name,              \* props.name: the selected component
  code,              \* props.code: the demo source
  demoDependencies,  \* props.dependencies
  pc,                \* "idle" | "phase1" | "phase2" | "done" | "thrown"
  registry,          \* import of ../../public/registry/<name>.json: "none" | "pending" | "loaded" | "failed"
  pending,           \* bag of dynamic imports of ./shadcn/<id>.json in flight
  files,             \* Preview's files (the object the entry parseShadcnComponents call returned)
  dependencies,      \* Preview's dependencies
  devDependencies,   \* Preview's devDependencies
  dropped,           \* paths written to the files object of a call whose result is never read
  fetchCount,        \* identifier -> number of import() calls issued for it (saturating)
  loaded,            \* identifiers whose import resolved
  warned,            \* identifiers reported by console.warn
  setup,             \* customSetup handed to PreviewProvider
  \* ---- parseDependencyVersion applied to one input ----
  dep,               \* the dependency string
  parsed,            \* <<>>, then << the object returned >>
  target,            \* <<>>, then << one call of processDependencies >>
  \* ---- parseContent / kiboRegex applied to one input ----
  content,           \* the source text
  rewritten,         \* <<>>, then << parseContent(content) >>
  components         \* <<>>, then << the identifiers found in content >>

previewVars == <<name, code, demoDependencies, pc, registry, pending, files,
                 dependencies, devDependencies, dropped, fetchCount, loaded,
                 warned, setup>>
depVars     == <<dep, parsed, target>>
textVars    == <<content, rewritten, components>>
vars        == <<previewVars, depVars, textVars>>

-----------------------------------------------------------------------------
(* Bounds *)

MaxFetch     == 2   \* fetchCount saturates here
MaxDepLen    == 4   \* lexemes of a dependency string
MaxFragments == 3   \* fragments of a source text

-----------------------------------------------------------------------------
(* Strings and maps *)

\* 'latest'
latest == <<"latest">>

\* The value undefined, and the property key it is converted to.
undefined == <<"\\undefined">>
PropertyKey(k) == IF k = undefined THEN <<"undefined">> ELSE k

EmptyMap == [k \in {} |-> <<>>]

\* The mutated write: done on a stale (empty) copy, it loses the other entries.
PutLosing(map, key, value) == [k \in {PropertyKey(key)} |-> value]

\* target[key] = value
Put(map, key, value) ==
  [k \in DOMAIN map \cup {PropertyKey(key)} |->
     IF k = PropertyKey(key) THEN value ELSE map[k]]

\* { ...base, ...over }
Spread(base, over) ==
  [k \in DOMAIN base \cup DOMAIN over |->
     IF k \in DOMAIN over THEN over[k] ELSE base[k]]

StartsWithAt(s, i, p) ==
  /\ i + Len(p) - 1 <= Len(s)
  /\ SubSeq(s, i, i + Len(p) - 1) = p

Contains(s, p) == \E i \in 1..Len(s) : StartsWithAt(s, i, p)

\* Characters "." does not match.
LineTerminators == {"\n"}

\* Characters the class [^'"\s] does not match.
QuoteOrSpace == {"'", "\"", " ", "\n"}

-----------------------------------------------------------------------------
(* The three regular expressions and the pure functions, lines 29-55 *)

\* registryRegex = /@\/registry\/new-york\/ui\//g
registryRegex == <<"@", "/", "registry", "/", "new-york", "/", "ui", "/">>

\* '@/components/ui/'
componentsUi == <<"@", "/", "components", "/", "ui", "/">>

\* the negative lookahead (?!kibo-ui\/)
kiboUi == <<"kibo-ui", "/">>

AllDots(s, from, to) == \A j \in from..to : s[j] \notin LineTerminators

\* dependencyRegex = /^(.+?)(?:@(.+))?$/ : the lengths the lazy group 1 can
\* take so that the rest of the pattern reaches the end of the string.
dependencyRegexSplits(s) ==
  { k \in 1..Len(s) :
      /\ AllDots(s, 1, k)
      /\ \/ k = Len(s)
         \/ /\ k + 2 <= Len(s)
            /\ s[k + 1] = "@"
            /\ AllDots(s, k + 2, Len(s)) }

Least(S) == CHOOSE k \in S : \A j \in S : k <= j

parseDependencyVersion(dependency) ==
  LET splits == dependencyRegexSplits(dependency) IN
  IF splits = {}
    THEN [name |-> undefined, version |-> latest]          \* match() is null: ?? []
    ELSE LET k == Least(splits) IN                         \* .+? is lazy
         [name    |-> SubSeq(dependency, 1, k),
          version |-> IF k = Len(dependency)
                        THEN latest                        \* version ?? 'latest'
                        ELSE SubSeq(dependency, k + 2, Len(dependency))]

RECURSIVE replaceFrom(_, _, _, _, _)
replaceFrom(s, i, p, r, all) ==
  IF i > Len(s) THEN <<>>
  ELSE IF StartsWithAt(s, i, p)
    THEN IF all THEN r \o replaceFrom(s, i + Len(p), p, r, all)
                ELSE r \o SubSeq(s, i + Len(p), Len(s))
    ELSE <<s[i]>> \o replaceFrom(s, i + 1, p, r, all)

\* String.prototype.replace with a /g pattern: every match, left to right.
replaceAll(s, p, r) == replaceFrom(s, 1, p, r, TRUE)

\* String.prototype.replace with a string pattern: the first match only.
replaceFirst(s, p, r) == replaceFrom(s, 1, p, r, FALSE)

\* The mutated rewrite: registryRegex without its g flag.
parseContentFirstOnly(text) == replaceFirst(text, registryRegex, componentsUi)

parseContent(text) == replaceAll(text, registryRegex, componentsUi)

\* The object a record's optional field holds: absent fields are undefined.
Field(record, f) ==
  IF f \in DOMAIN record THEN [defined |-> TRUE, value |-> record[f]]
                         ELSE [defined |-> FALSE]

\* The mutated enumeration: Object.keys(deps).
ObjectKeys(deps) == [i \in 1..Len(deps) |-> deps[i].key]

\* Object.values(deps): deps is a sequence of [key, value] properties.
ObjectValues(deps) == [i \in 1..Len(deps) |-> deps[i].value]

RECURSIVE processValues(_, _, _)
processValues(values, i, map) ==
  IF i > Len(values) THEN map
  ELSE LET p == parseDependencyVersion(values[i]) IN
       processValues(values, i + 1, Put(map, p.name, p.version))

\* deps is Field(...): undefined or a sequence of properties.
processDependencies(deps, map) ==
  IF ~deps.defined THEN map
  ELSE processValues(ObjectValues(deps.value), 1, map)

\* The end of the longest run of [^'"\s] starting at i (i - 1 when empty).
RECURSIVE runEnd(_, _)
runEnd(s, i) ==
  IF i > Len(s) \/ s[i] \in QuoteOrSpace THEN i - 1 ELSE runEnd(s, i + 1)

\* str.match(kiboRegex): the matches of
\* /@\/components\/ui\/(?!kibo-ui\/)([^'"\s]+)/g, left to right.
RECURSIVE kiboRegexFrom(_, _)
kiboRegexFrom(s, i) ==
  IF i > Len(s) THEN <<>>
  ELSE LET j == i + Len(componentsUi)
           e == runEnd(s, j) IN
       IF /\ StartsWithAt(s, i, componentsUi)
          /\ ~StartsWithAt(s, j, kiboUi)
          /\ e >= j
         THEN <<SubSeq(s, i, e)>> \o kiboRegexFrom(s, e + 1)
         ELSE kiboRegexFrom(s, i + 1)

kiboRegex(s) == kiboRegexFrom(s, 1)

\* The mutated spread: every element kept.
Spreaded(seq) == seq

\* [...new Set(seq)]: the elements in the order of their first occurrence.
NewSet(seq) ==
  LET kept[i \in 0..Len(seq)] ==
        IF i = 0 THEN <<>>
        ELSE IF \E j \in 1..(i - 1) : seq[j] = seq[i] THEN kept[i - 1]
        ELSE Append(kept[i - 1], seq[i])
  IN kept[Len(seq)]

\* Lines 58-68: the array `components` of parseShadcnComponents(str), empty
\* when there is no match.  (The intermediate results are bound by set
\* membership so that each is computed once.)
componentList(str) ==
  CHOOSE list \in
    UNION { { NewSet([i \in 1..Len(matches) |->
                        replaceFirst(matches[i], componentsUi, <<>>)])
              : matches \in { kiboRegex(parsedString) } }
            : parsedString \in { parseContent(str) } } : TRUE

\* The identifiers parseShadcnComponents(str) imports.
shadcnComponents(str) ==
  UNION { { list[i] : i \in 1..Len(list) } : list \in { componentList(str) } }

-----------------------------------------------------------------------------
(* The data the dynamic imports read.  ./shadcn/<id>.json (lines 73-78) and *)
(* ../../public/registry/<name>.json (lines 105-110) are JSON modules; a    *)
(* JSON array is an object whose keys are its indices.                      *)

Array(values) ==
  [i \in 1..Len(values) |-> [key |-> <<ToString(i - 1)>>, value |-> values[i]]]

\* import ... from '<prefix><id>';
ImportLine(prefix, id) ==
  <<"import", " ", "'">> \o prefix \o id \o <<"'", ";", "\n">>

shadcnRegistry ==
  (<<"button">> :>
     [name            |-> <<"button">>,
      dependencies    |-> Array(<< <<"x", "@", "1">>, <<"bpkg">> >>),
      devDependencies |-> Array(<< <<"dbtn">> >>),
      files           |-> << [content |-> ImportLine(registryRegex, <<"icon">>)] >>])
  @@
  (<<"icon">> :>
     [name            |-> <<"icon">>,
      dependencies    |-> Array(<< <<"x", "@", "2">>, <<"ipkg">> >>),
      devDependencies |-> Array(<< <<"dicon", "@", "3">> >>),
      files           |-> << [content |-> <<"export", " ", "icon", ";", "\n">>] >>])
  @@
  (<<"p">> :>
     [name  |-> <<"p">>,
      files |-> << [content |-> ImportLine(registryRegex, <<"q">>)
                                \o ImportLine(componentsUi, <<"q">>)] >>])
  @@
  (<<"q">> :>
     [name  |-> <<"q">>,
      files |-> << [content |-> ImportLine(registryRegex, <<"p">>)] >>])
  @@
  (<<"A">> :>
     [name         |-> <<"A">>,
      dependencies |-> Array(<< <<"apkg">> >>),
      files        |-> << [content |-> ImportLine(registryRegex, <<"B">>)] >>])
  @@
  (<<"B">> :>
     [name  |-> <<"B">>,
      files |-> << [content |-> ImportLine(registryRegex, <<"C">>)] >>])
  @@
  (<<"C">> :>
     [name  |-> <<"C">>,
      files |-> << [content |-> ImportLine(registryRegex, <<"A">>)] >>])
  @@
  (<<"m">> :>
     [name         |-> <<"m">>,
      dependencies |-> Array(<< <<"mpkg">> >>),
      files        |-> << [content |-> ImportLine(registryRegex, <<"z">>)
                                       \o ImportLine(registryRegex, <<"icon">>)] >>])
  @@
  (<<"s">> :>
     [name  |-> <<"s">>,
      files |-> << [content |-> ImportLine(registryRegex, <<"s">>)] >>])

kiboRegistry ==
  (<<"card">> :>
     [dependencies         |-> Array(<< <<"x", "@", "3">>, <<"date-fns", "@", "4">>,
                                        <<"clsx", "@", "2">> >>),
      devDependencies      |-> Array(<< <<"autoprefixer", "@", "9">> >>),
      registryDependencies |-> Array(<< <<"icon">> >>),
      files                |-> << [content |-> ImportLine(registryRegex, <<"button">>)] >>])
  @@
  (<<"dialog">> :>
     [registryDependencies |-> Array(<< <<"zz">>, <<"icon">> >>),
      files                |-> << [content |-> <<"export", " ", "dialog", ";", "\n">>] >>])
  @@
  (<<"list">> :>
     [registryDependencies |-> Array(<< <<"m">>, <<"button">> >>),
      files                |-> << >>])
  @@
  (<<"pair">> :>
     [dependencies         |-> Array(<< <<"dicon", "@", "7">> >>),
      registryDependencies |-> Array(<< <<"button">>, <<"icon">> >>)])
  @@
  (<<"plain">> :> [n \in {} |-> <<>>])

\* The props Preview is rendered with.
Names == DOMAIN kiboRegistry \cup { <<"ghost">> }

Codes ==
  { ImportLine(componentsUi, kiboUi \o <<"card">>),
    ImportLine(componentsUi, <<"button">>),
    ImportLine(componentsUi, <<"p">>),
    ImportLine(componentsUi, <<"A">>),
    ImportLine(componentsUi, <<"s">>),
    ImportLine(componentsUi, <<"m">>) \o ImportLine(registryRegex, <<"button">>) }

DemoDependencies ==
  { [defined |-> FALSE],
    [defined |-> TRUE, value |-> << [key |-> <<"x">>, value |-> <<"2.0.0">>] >>],
    [defined |-> TRUE, value |-> << [key |-> <<"x">>, value |-> <<"x", "@", "5">>] >>] }

\* The imported constants tsconfig, utils and content (lines 18-21).
tsconfig == <<"tsconfig">>
utils == <<"utils">>
contentModule == <<"content">>

-----------------------------------------------------------------------------
(* Helpers of the state machine *)

\* mod.files?.[0]?.content ?? ''
firstContent(mod) ==
  IF "files" \in DOMAIN mod /\ Len(mod.files) >= 1 THEN mod.files[1].content ELSE <<>>

\* The mutated path: built from a field the record does not have.
componentPathUndefined(modName) ==
  <<"/", "components", "/", "ui", "/">> \o PropertyKey(undefined) \o <<".tsx">>

\* `/components/ui/${mod.name}.tsx`
componentPath(modName) == <<"/", "components", "/", "ui", "/">> \o modName \o <<".tsx">>

\* `/components/ui/kibo-ui/${name}.tsx`
kiboPath(n) == <<"/", "components", "/", "ui", "/", "kibo-ui", "/">> \o n \o <<".tsx">>

AppPath == <<"/", "App.tsx">>

\* Lines 117-120
withInitialFiles(f) ==
  Put(Put(Put(Put(f, AppPath, code),
              <<"/", "tsconfig.json">>, tsconfig),
          <<"/", "lib", "/", "utils.ts">>, utils),
      <<"/", "lib", "/", "content.ts">>, contentModule)

\* Lines 170-184 and 185-189: the literal maps of customSetup.
baseDependencies ==
  (<<"@", "radix-ui", "/", "react-icons">> :> latest)
  @@ (<<"clsx">> :> latest)
  @@ (<<"tailwind-merge">> :> latest)
  @@ (<<"class-variance-authority">> :> latest)
  @@ (<<"tailwindcss">> :> latest)
  @@ (<<"tailwindcss-animate">> :> latest)

commonUtilities == (<<"date-fns">> :> latest)

baseDevDependencies == (<<"autoprefixer">> :> latest) @@ (<<"postcss">> :> latest)

\* The mutated setup: one map spread into both lists.
customSetupMixed(deps, devDeps) ==
  [dependencies    |-> Spread(Spread(baseDependencies, deps), commonUtilities),
   devDependencies |-> Spread(baseDevDependencies, Spread(deps, devDeps))]

customSetup(deps, devDeps) ==
  [dependencies    |-> Spread(Spread(baseDependencies, deps), commonUtilities),
   devDependencies |-> Spread(baseDevDependencies, devDeps)]

\* One import(`./shadcn/${id}.json`) in flight.  ctx says which code awaits it:
\*   "entry"      line 73, in the call parseShadcnComponents(code) of line 111
\*   "unread"     line 73, in a call whose result nothing reads (lines 87, 127, 145)
\*   "dependency" line 131
Import(id, ctx) == [id |-> id, ctx |-> ctx]

Min(a, b) == IF a < b THEN a ELSE b

\* The counters after one more import() of id.
counted(fc, id) ==
  [i \in DOMAIN fc \cup {id} |->
     IF i = id THEN Min(MaxFetch, (IF id \in DOMAIN fc THEN fc[id] ELSE 0) + 1)
               ELSE fc[i]]

RECURSIVE countedAll(_, _)
countedAll(fc, ids) ==
  IF ids = {} THEN fc
  ELSE LET id == CHOOSE i \in ids : TRUE IN countedAll(counted(fc, id), ids \ {id})

\* components.map(async (component) => ...) of line 71: one import per identifier.
imports(ids, ctx) == SetToBag({ Import(id, ctx) : id \in ids })

\* Object.values(registry.registryDependencies).map(...) of line 130.
RECURSIVE dependencyImports(_, _)
dependencyImports(ids, i) ==
  IF i > Len(ids) THEN EmptyBag
  ELSE SetToBag({ Import(ids[i], "dependency") }) (+) dependencyImports(ids, i + 1)

RECURSIVE countedSeq(_, _, _)
countedSeq(fc, ids, i) ==
  IF i > Len(ids) THEN fc ELSE countedSeq(counted(fc, ids[i]), ids, i + 1)

Idle == BagToSet(pending) = {}

-----------------------------------------------------------------------------
(* Preview, lines 99-190 *)

Init ==
  /\ name \in Names
  /\ code \in Codes
  /\ demoDependencies \in DemoDependencies
  /\ pc = "idle"
  /\ registry = "none"
  /\ pending = EmptyBag
  /\ files = EmptyMap
  /\ dependencies = EmptyMap
  /\ devDependencies = EmptyMap
  /\ dropped = {}
  /\ fetchCount = EmptyMap
  /\ loaded = {}
  /\ warned = {}
  /\ setup = [dependencies |-> EmptyMap, devDependencies |-> EmptyMap]
  /\ dep = <<>> /\ parsed = <<>> /\ target = <<>>
  /\ content = <<>> /\ rewritten = <<>> /\ components = <<>>

\* Lines 104-112 up to the first await: both promises are started.
PreviewStart ==
  /\ pc = "idle"
  /\ pc' = "phase1"
  /\ registry' = "pending"
  /\ \E ids \in { shadcnComponents(code) } :
       /\ pending' = imports(ids, "entry")
       /\ fetchCount' = countedAll(fetchCount, ids)
  /\ UNCHANGED <<name, code, demoDependencies, files, dependencies,
                 devDependencies, dropped, loaded, warned, setup>>
  /\ UNCHANGED <<depVars, textVars>>

\* Line 105: the import of the selected component's record resolves.
RegistryResolved ==
  /\ pc = "phase1" /\ registry = "pending"
  /\ name \in DOMAIN kiboRegistry
  /\ registry' = "loaded"
  /\ UNCHANGED <<name, code, demoDependencies, pc, pending, files, dependencies,
                 devDependencies, dropped, fetchCount, loaded, warned, setup>>
  /\ UNCHANGED <<depVars, textVars>>

\* Line 105: it rejects, and so does the Promise.all of line 104.  Preview has
\* thrown; the imports still in flight can only write to objects nobody reads,
\* and are not followed further.
RegistryRejected ==
  /\ pc = "phase1" /\ registry = "pending"
  /\ name \notin DOMAIN kiboRegistry
  /\ registry' = "failed"
  /\ pc' = "thrown"
  /\ UNCHANGED <<name, code, demoDependencies, pending, files, dependencies,
                 devDependencies, dropped, fetchCount, loaded, warned, setup>>
  /\ UNCHANGED <<depVars, textVars>>

\* Lines 73-88: an import of parseShadcnComponents resolves.  The file and the
\* dependencies go to the objects of the call the import belongs to (lines
\* 61-63); the call of line 87 is started and its result is not read.
ComponentResolved(t) ==
  /\ pc \in {"phase1", "phase2"}
  /\ BagIn(t, pending) /\ t.ctx \in {"entry", "unread"}
  /\ t.id \in DOMAIN shadcnRegistry
  /\ \E next \in { shadcnComponents(firstContent(shadcnRegistry[t.id])) } :
     LET mod == shadcnRegistry[t.id]
         componentContent == firstContent(mod)
         path == componentPath(mod.name)
     IN
       /\ IF t.ctx = "entry"
            THEN /\ files' = Put(files, path, parseContent(componentContent))
                 /\ dependencies' =
                      processDependencies(Field(mod, "dependencies"), dependencies)
                 /\ devDependencies' =
                      processDependencies(Field(mod, "devDependencies"), devDependencies)
                 /\ dropped' = dropped
            ELSE /\ dropped' = dropped \cup {path}
                 /\ UNCHANGED <<files, dependencies, devDependencies>>
       /\ pending' = (pending (-) SetToBag({t})) (+) imports(next, "unread")
       /\ fetchCount' = countedAll(fetchCount, next)
  /\ loaded' = loaded \cup {t.id}
  /\ UNCHANGED <<name, code, demoDependencies, pc, registry, warned, setup>>
  /\ UNCHANGED <<depVars, textVars>>

\* Lines 89-91: the import rejects (no such module); the catch block warns.
ComponentRejected(t) ==
  /\ pc \in {"phase1", "phase2"}
  /\ BagIn(t, pending) /\ t.ctx \in {"entry", "unread"}
  /\ t.id \notin DOMAIN shadcnRegistry
  /\ warned' = warned \cup {t.id}
  /\ pending' = pending (-) SetToBag({t})
  /\ UNCHANGED <<name, code, demoDependencies, pc, registry, files, dependencies,
                 devDependencies, dropped, fetchCount, loaded, setup>>
  /\ UNCHANGED <<depVars, textVars>>

\* Lines 104-148 up to the await of line 126: the first Promise.all has
\* resolved (the record is loaded and the entry call has returned).
EntryParsed ==
  /\ pc = "phase1" /\ registry = "loaded" /\ Idle
  /\ \E ids \in { shadcnComponents(parseContent(firstContent(kiboRegistry[name]))) } :
     LET record == kiboRegistry[name]
         extra == IF "registryDependencies" \in DOMAIN record
                    THEN ObjectValues(record.registryDependencies)
                    ELSE <<>>
     IN
       /\ files' = withInitialFiles(files)
       /\ pending' = imports(ids, "unread") (+) dependencyImports(extra, 1)
       /\ fetchCount' = countedSeq(countedAll(fetchCount, ids), extra, 1)
  /\ pc' = "phase2"
  /\ UNCHANGED <<name, code, demoDependencies, registry, dependencies,
                 devDependencies, dropped, loaded, warned, setup>>
  /\ UNCHANGED <<depVars, textVars>>

\* Lines 131-145: the import of a registry dependency resolves.
DependencyResolved(t) ==
  /\ pc = "phase2"
  /\ BagIn(t, pending) /\ t.ctx = "dependency"
  /\ t.id \in DOMAIN shadcnRegistry
  /\ \E next \in { shadcnComponents(firstContent(shadcnRegistry[t.id])) } :
     LET mod == shadcnRegistry[t.id]
         componentContent == firstContent(mod)
     IN
       /\ files' = Put(files, componentPath(mod.name), parseContent(componentContent))
       /\ dependencies' = processDependencies(Field(mod, "dependencies"), dependencies)
       /\ devDependencies' =
            processDependencies(Field(mod, "devDependencies"), devDependencies)
       /\ pending' = (pending (-) SetToBag({t})) (+) imports(next, "unread")
       /\ fetchCount' = countedAll(fetchCount, next)
  /\ loaded' = loaded \cup {t.id}
  /\ UNCHANGED <<name, code, demoDependencies, pc, registry, dropped, warned, setup>>
  /\ UNCHANGED <<depVars, textVars>>

\* Line 131: it rejects; nothing catches it, so both Promise.all of lines
\* 126-148 reject and Preview throws.
DependencyRejected(t) ==
  /\ pc = "phase2"
  /\ BagIn(t, pending) /\ t.ctx = "dependency"
  /\ t.id \notin DOMAIN shadcnRegistry
  /\ pc' = "thrown"
  /\ pending' = pending (-) SetToBag({t})
  /\ UNCHANGED <<name, code, demoDependencies, registry, files, dependencies,
                 devDependencies, dropped, fetchCount, loaded, warned, setup>>
  /\ UNCHANGED <<depVars, textVars>>

\* Lines 150-190: the second Promise.all has resolved.
Render ==
  /\ pc = "phase2" /\ Idle
  /\ LET record == kiboRegistry[name]
         selectedComponentContent == parseContent(firstContent(record))
         deps == processDependencies(demoDependencies,
                   processDependencies(Field(record, "dependencies"), dependencies))
         devDeps == processDependencies(Field(record, "devDependencies"), devDependencies)
     IN
       /\ files' = Put(files, kiboPath(name), parseContent(selectedComponentContent))
       /\ dependencies' = deps
       /\ devDependencies' = devDeps
       /\ setup' = customSetup(deps, devDeps)
  /\ pc' = "done"
  /\ UNCHANGED <<name, code, demoDependencies, registry, pending, dropped,
                 fetchCount, loaded, warned>>
  /\ UNCHANGED <<depVars, textVars>>

Next ==
  \/ PreviewStart
  \/ RegistryResolved
  \/ RegistryRejected
  \/ \E t \in BagToSet(pending) : ComponentResolved(t)
  \/ \E t \in BagToSet(pending) : ComponentRejected(t)
  \/ EntryParsed
  \/ \E t \in BagToSet(pending) : DependencyResolved(t)
  \/ \E t \in BagToSet(pending) : DependencyRejected(t)
  \/ Render

Spec == Init /\ [][Next]_vars

\* The event loop runs every continuation that is ready.
FairSpec == Spec /\ WF_vars(Next)

-----------------------------------------------------------------------------
(* parseDependencyVersion on every short dependency string *)

DepAlphabet == {"foo", "1", "@", "\n"}

DepStrings == UNION { [1..n -> DepAlphabet] : n \in 0..MaxDepLen }

\* A Preview that is never called.
NoPreview ==
  /\ name = <<"plain">>
  /\ code = <<>>
  /\ demoDependencies = [defined |-> FALSE]
  /\ pc = "none"
  /\ registry = "none"
  /\ pending = EmptyBag
  /\ files = EmptyMap
  /\ dependencies = EmptyMap
  /\ devDependencies = EmptyMap
  /\ dropped = {}
  /\ fetchCount = EmptyMap
  /\ loaded = {}
  /\ warned = {}
  /\ setup = [dependencies |-> EmptyMap, devDependencies |-> EmptyMap]

InitDep ==
  /\ NoPreview
  /\ dep \in DepStrings /\ parsed = <<>> /\ target = <<>>
  /\ content = <<>> /\ rewritten = <<>> /\ components = <<>>

\* Lines 33-38
ParseDependency ==
  /\ parsed = <<>>
  /\ parsed' = << parseDependencyVersion(dep) >>
  /\ UNCHANGED <<dep, target, previewVars, textVars>>

\* The deps processDependencies is called with: undefined, or an object with
\* the dependency string under one key (an array index or a package name).
DepObjects ==
  { [defined |-> FALSE] }
    \cup { [defined |-> TRUE, value |-> << [key |-> k, value |-> dep] >>] :
             k \in { <<"0">>, <<"foo">> } }

\* The target it is called with: empty, or holding an earlier entry.
DepTargets == { EmptyMap, <<"foo">> :> <<"0.1">> }

\* Lines 43-55
ProcessDependency ==
  /\ target = <<>>
  /\ \E deps \in DepObjects, before \in DepTargets :
       target' = << [deps   |-> deps,
                     before |-> before,
                     after  |-> processDependencies(deps, before)] >>
  /\ UNCHANGED <<dep, parsed, previewVars, textVars>>

NextDep == ParseDependency \/ ProcessDependency

SpecDep == InitDep /\ [][NextDep]_vars

-----------------------------------------------------------------------------
(* parseContent and the scan on source texts built from the fragments the   *)
(* two patterns are made of                                                 *)

Fragments ==
  { registryRegex, componentsUi, kiboUi,
    <<"@", "/", "registry", "/", "new-york", "/">>, <<"ui", "/">>,
    <<"@">>, <<"/">>, <<"icon">>, <<"'">>, <<" ">>,
    componentsUi \o <<"icon", "'">> }

RECURSIVE TextsOf(_)
TextsOf(n) ==
  IF n = 0 THEN { <<>> }
  ELSE LET shorter == TextsOf(n - 1) IN
       shorter \cup { t \o f : t \in shorter, f \in Fragments }

Texts == TextsOf(MaxFragments)

InitText ==
  /\ NoPreview
  /\ dep = <<>> /\ parsed = <<>> /\ target = <<>>
  /\ content \in Texts /\ rewritten = <<>> /\ components = <<>>

\* Lines 40-41, applied to the text and then to its own result (as lines 122
\* and 150 do with the selected component's content).
Rewrite ==
  /\ Len(rewritten) < 2
  /\ rewritten' = Append(rewritten,
                         parseContent(IF rewritten = <<>> THEN content
                                      ELSE rewritten[Len(rewritten)]))
  /\ UNCHANGED <<content, components, previewVars, depVars>>

\* Lines 58-68
Scan ==
  /\ components = <<>>
  /\ components' = << componentList(content) >>
  /\ UNCHANGED <<content, rewritten, previewVars, depVars>>

NextText == Rewrite \/ Scan

SpecText == InitText /\ [][NextText]_vars

-----------------------------------------------------------------------------
(* Claims *)

ComponentIds == DOMAIN shadcnRegistry

\* The package names a record declares in one of its dependency fields.
DeclaredNames(record, f) ==
  IF f \in DOMAIN record
    THEN { PropertyKey(parseDependencyVersion(record[f][i].value).name) :
             i \in 1..Len(record[f]) }
    ELSE {}

ScaffoldPaths ==
  { AppPath, <<"/", "tsconfig.json">>, <<"/", "lib", "/", "utils.ts">>,
    <<"/", "lib", "/", "content.ts">> }

\* C1: within one Preview call every component identifier is fetched (and
\* scanned) at most once, however many components reference it.
C1_FetchedAtMostOnce == \A id \in DOMAIN fetchCount : fetchCount[id] <= 1

\* C2: with A -> B -> C -> A in the registry, a call whose source references A
\* eventually returns, and the returned file set holds exactly the files of A,
\* B and C beside the entry and scaffold files.
C2_CycleTerminates ==
  (pc = "idle" /\ code = ImportLine(componentsUi, <<"A">>) /\ name = <<"plain">>)
    ~> (/\ pc = "done"
        /\ DOMAIN files = ScaffoldPaths \cup {kiboPath(name)}
                            \cup { componentPath(id) : id \in {<<"A">>, <<"B">>, <<"C">>} })

\* C3: when the call returns, the file set holds the file
\* /components/ui/<name>.tsx of every component fetched at any depth.
C3_EveryFetchedHasFile ==
  pc = "done" =>
    \A id \in loaded : componentPath(shadcnRegistry[id].name) \in DOMAIN files

\* C4: when the call returns, every package a fetched component declares in
\* dependencies (devDependencies) is a key of the runtime (dev) map handed to
\* the sandbox, at any depth.
C4_EveryDeclaredPackageMerged ==
  pc = "done" =>
    \A id \in loaded :
      /\ DeclaredNames(shadcnRegistry[id], "dependencies")
           \subseteq DOMAIN setup.dependencies
      /\ DeclaredNames(shadcnRegistry[id], "devDependencies")
           \subseteq DOMAIN setup.devDependencies

\* C5: a scanned reference that cannot be fetched does not make the call
\* throw; the returned file set holds the files of every other resolved
\* component and none for the failed identifier, which adds no dependency.
C5_MissingReferenceSkipped ==
  warned # {} =>
    /\ pc = "thrown" =>
         \/ registry = "failed"
         \/ \E t \in DOMAIN kiboRegistry :
              /\ name = t /\ "registryDependencies" \in DOMAIN kiboRegistry[t]
              /\ \E i \in 1..Len(kiboRegistry[t].registryDependencies) :
                   kiboRegistry[t].registryDependencies[i].value \notin ComponentIds
    /\ pc = "done" =>
         /\ \A id \in loaded : componentPath(shadcnRegistry[id].name) \in DOMAIN files
         /\ \A id \in warned : componentPath(id) \notin DOMAIN files

\* C6: a registry dependency that is absent from the registry is skipped; it
\* never makes the call throw.
C6_DependencyFailureNotFatal == pc = "thrown" => registry = "failed"

\* C7: for every key of the caller's dependencies, the runtime map handed to
\* the sandbox holds the caller's version for that key.
C7_CallerVersionWins ==
  (pc = "done" /\ demoDependencies.defined) =>
    \A i \in 1..Len(demoDependencies.value) :
      LET d == demoDependencies.value[i] IN
      /\ d.key \in DOMAIN setup.dependencies
      /\ setup.dependencies[d.key] = d.value

\* The versions the selected component's record, the fetched components and
\* the caller declare for package k in field f.
DeclaredVersions(k, f) ==
  LET of(record) ==
        IF f \in DOMAIN record
          THEN { parseDependencyVersion(record[f][i].value).version :
                   i \in { j \in 1..Len(record[f]) :
                             parseDependencyVersion(record[f][j].value).name = k } }
          ELSE {}
  IN of(kiboRegistry[name])
       \cup UNION { of(shadcnRegistry[id]) : id \in loaded }
       \cup (IF f = "dependencies" /\ demoDependencies.defined
               THEN { demoDependencies.value[i].value :
                        i \in { j \in 1..Len(demoDependencies.value) :
                                  demoDependencies.value[j].key = k } }
               ELSE {})

\* C8: every baseline entry of customSetup is overridable: a baseline key that
\* a resolution result declares ends with a declared version.
C8_BaselineOverridable ==
  pc = "done" =>
    /\ \A k \in DOMAIN baseDependencies \cup DOMAIN commonUtilities :
         DeclaredVersions(k, "dependencies") # {} =>
           setup.dependencies[k] \in DeclaredVersions(k, "dependencies")
    /\ \A k \in DOMAIN baseDevDependencies :
         DeclaredVersions(k, "devDependencies") # {} =>
           setup.devDependencies[k] \in DeclaredVersions(k, "devDependencies")

\* C9: parseDependencyVersion splits at the last "@" of the string that is
\* not its first character; a string without one gives (s, 'latest').
C9_SplitsAtLastAt ==
  parsed # <<>> =>
    LET ats == { i \in 2..Len(dep) : dep[i] = "@" } IN
    IF ats # {}
      THEN LET last == CHOOSE i \in ats : \A j \in ats : j <= i IN
           parsed[1] = [name    |-> SubSeq(dep, 1, last - 1),
                        version |-> SubSeq(dep, last + 1, Len(dep))]
      ELSE parsed[1] = [name |-> dep, version |-> latest]

\* C10: parseContent is idempotent, and a rewritten text never contains the
\* raw registry prefix.
C10_RewriteIdempotent ==
  /\ \A i \in 1..Len(rewritten) : ~Contains(rewritten[i], registryRegex)
  /\ Len(rewritten) = 2 => rewritten[2] = rewritten[1]

\* A text with two registry prefixes has been rewritten twice.
C10_Witness ==
  /\ Len(rewritten) = 2
  /\ \E i, j \in 1..Len(content) :
       i < j /\ StartsWithAt(content, i, registryRegex)
             /\ StartsWithAt(content, j, registryRegex)
  /\ rewritten[1] # content

\* C11: when two components resolved in the same call declare package x at
\* different versions, the merged version of x is the one of the later
\* component in the defined order, whichever fetch completes first.  (The
\* record "pair" lists button, x@1, before icon, x@2.)
C11_LaterInOrderWins ==
  (pc = "done" /\ name = <<"pair">> /\ ~demoDependencies.defined) =>
    setup.dependencies[<<"x">>] = <<"2">>

\* The identifiers of the two frontiers that write to Preview's own objects:
\* those found in the demo code and those of the registryDependencies list.
EntryFrontier == shadcnComponents(code) \cap ComponentIds

DependencyFrontier ==
  IF name \in DOMAIN kiboRegistry /\ "registryDependencies" \in DOMAIN kiboRegistry[name]
    THEN { kiboRegistry[name].registryDependencies[i].value :
             i \in 1..Len(kiboRegistry[name].registryDependencies) }
    ELSE {}

\* The file and the package names of component id are in the three maps.
Merged(id, f, deps, devDeps) ==
  LET mod == shadcnRegistry[id] IN
  /\ componentPath(mod.name) \in DOMAIN f
  /\ f[componentPath(mod.name)] = parseContent(firstContent(mod))
  /\ DeclaredNames(mod, "dependencies") \subseteq DOMAIN deps
  /\ DeclaredNames(mod, "devDependencies") \subseteq DOMAIN devDeps

\* C12: completions of the imports of one frontier lose no update, in any
\* interleaving: once all have completed, the file map holds the file of each
\* identifier of the frontier and the dependency maps a key for every package
\* each of them declares.
C12_NoLostUpdate ==
  /\ pc \in {"phase2", "done"} =>
       \A id \in EntryFrontier : Merged(id, files, dependencies, devDependencies)
  /\ pc = "done" =>
       \A id \in EntryFrontier \cup DependencyFrontier :
         Merged(id, files, setup.dependencies, setup.devDependencies)
  /\ \A id \in loaded :
       componentPath(shadcnRegistry[id].name) \in DOMAIN files \cup dropped

\* The two registry dependencies of "pair", which declare different packages,
\* have both completed.
C12_Witness ==
  /\ pc = "done" /\ name = <<"pair">>
  /\ {<<"button">>, <<"icon">>} \subseteq loaded
  /\ {<<"bpkg">>, <<"ipkg">>} \subseteq DOMAIN setup.dependencies
  /\ {componentPath(<<"button">>), componentPath(<<"icon">>)} \subseteq DOMAIN files

\* C13: a self-reference is excluded at scan time: resolving a reference to a
\* component whose content references its own identifier fetches it once.
C13_SelfReferenceFetchedOnce ==
  code = ImportLine(componentsUi, <<"s">>) =>
    /\ \A t \in BagToSet(pending) : t.ctx = "unread" => t.id # <<"s">>
    /\ (<<"s">> \in DOMAIN fetchCount => fetchCount[<<"s">>] <= 1)

\* C14: expansion is round-synchronized: no import of an identifier found by
\* scanning a component of a round starts before every import of that round
\* has completed.  (While the entry call of line 111 runs, the imports of its
\* own frontier are the first round; every other import is of a later one.)
C14_RoundSynchronized ==
  pc = "phase1" =>
    ~(\E t, u \in BagToSet(pending) : t.ctx = "entry" /\ u.ctx = "unread")

\* The paths Preview itself writes: lines 117-120 and 150.
FixedPaths == ScaffoldPaths \cup {kiboPath(name)}

\* The fetched records whose canonical path is path.
RecordsAt(path) == { id \in loaded : componentPath(shadcnRegistry[id].name) = path }

Unsplittable(s) == ~(\E i \in 2..(Len(s) - 1) : s[i] = "@")

\* C16: a dependency string that cannot be split never fails and is merged
\* with the whole string as its name and 'latest' as its version, the empty
\* string included; no entry is added under another key.
C16_WholeStringLatest ==
  (target # <<>> /\ target[1].deps.defined /\ Unsplittable(dep)) =>
    /\ DOMAIN target[1].after = DOMAIN target[1].before \cup {dep}
    /\ target[1].after[dep] = latest

\* C19: processDependencies derives the entry it merges from the value only:
\* it writes parse(v).name -> parse(v).version and leaves every other entry of
\* the target as it was; the key the value is stored under has no influence.
C19_ValuesOnly ==
  target # <<>> =>
    LET t == target[1]
        p == parseDependencyVersion(dep)
        n == PropertyKey(p.name)
    IN IF t.deps.defined
         THEN /\ DOMAIN t.after = DOMAIN t.before \cup {n}
              /\ t.after[n] = p.version
              /\ \A k \in DOMAIN t.before \ {n} : t.after[k] = t.before[k]
              /\ \A other \in DepObjects :
                   other.defined => processDependencies(other, t.before) = t.after
         ELSE t.after = t.before

\* A version stored under the package name foo: the entry is "1" -> 'latest',
\* and there is none for foo.
C19_Witness ==
  /\ target # <<>>
  /\ dep = <<"1">>
  /\ target[1].deps = [defined |-> TRUE,
                       value |-> << [key |-> <<"foo">>, value |-> <<"1">>] >>]
  /\ target[1].before = EmptyMap
  /\ target[1].after = (<<"1">> :> latest)

\* The identifier that starts at j in text t: the run up to the first quote
\* or whitespace character, or up to the end of the text.
IdentifierAt(t, j, id) ==
  /\ id # <<>>
  /\ SubSeq(t, j, j + Len(id) - 1) = id
  /\ \A k \in 1..Len(id) : id[k] \notin QuoteOrSpace
  /\ j + Len(id) > Len(t) \/ t[j + Len(id)] \in QuoteOrSpace

\* C17: the scan yields each referenced identifier once: no identifier is
\* listed twice, each one stands behind '@/components/ui/' in the rewritten
\* text and ends at the first quote or whitespace, none lies under
\* 'kibo-ui/', every reference that starts the text or follows a quote or
\* whitespace is listed, and a text with no reference yields the empty list
\* and no import.
C17_ScanIsDuplicateFreeSet ==
  components # <<>> =>
    LET list == components[1]
        t    == parseContent(content)
        n    == Len(componentsUi)
        ids  == { list[i] : i \in 1..Len(list) }
    IN /\ \A i, j \in 1..Len(list) : list[i] = list[j] => i = j
       /\ \A id \in ids :
            /\ ~StartsWithAt(id, 1, kiboUi)
            /\ \E k \in 1..Len(t) :
                 StartsWithAt(t, k, componentsUi) /\ IdentifierAt(t, k + n, id)
       /\ \A k \in 1..Len(t) :
            ( /\ StartsWithAt(t, k, componentsUi)
              /\ k = 1 \/ t[k - 1] \in QuoteOrSpace
              /\ ~StartsWithAt(t, k + n, kiboUi) ) =>
              \A e \in (k + n)..Len(t) :
                IdentifierAt(t, k + n, SubSeq(t, k + n, e)) =>
                  SubSeq(t, k + n, e) \in ids
       /\ (\A k \in 1..Len(t) : ~StartsWithAt(t, k, componentsUi)) =>
            /\ list = <<>>
            /\ imports(shadcnComponents(content), "entry") = EmptyBag

\* icon referenced twice and listed once.
C17_Witness ==
  /\ content = componentsUi \o <<"icon", "'">> \o componentsUi \o <<"icon", "'">>
  /\ components = << << <<"icon">> >> >>

\* The entries <<name, version>> that the values of a list of properties give.
Entries(properties) ==
  { << PropertyKey(parseDependencyVersion(properties[i].value).name),
       parseDependencyVersion(properties[i].value).version >> :
      i \in 1..Len(properties) }

\* The entries the resolved records give for field f.
RecordEntries(f) ==
  UNION { IF f \in DOMAIN record THEN Entries(record[f]) ELSE {} :
            record \in {kiboRegistry[name]}
                         \cup { shadcnRegistry[id] : id \in loaded } }

\* C18: the runtime map and the dev map are merged independently: every
\* entry of the dev map is a baseline entry or comes from a devDependencies
\* declaration, every entry of the runtime map is a baseline entry or comes
\* from a dependencies declaration or from the caller, and a package declared
\* as a runtime dependency by one record and as a dev dependency by another
\* has its own entry in each map.
C18_MapsIndependent ==
  pc = "done" =>
    /\ \A k \in DOMAIN setup.devDependencies :
         \/ k \in DOMAIN baseDevDependencies /\ setup.devDependencies[k] = latest
         \/ <<k, setup.devDependencies[k]>> \in RecordEntries("devDependencies")
    /\ \A k \in DOMAIN setup.dependencies :
         \/ /\ k \in DOMAIN baseDependencies \cup DOMAIN commonUtilities
            /\ setup.dependencies[k] = latest
         \/ <<k, setup.dependencies[k]>> \in RecordEntries("dependencies")
         \/ /\ demoDependencies.defined
            /\ <<k, setup.dependencies[k]>> \in Entries(demoDependencies.value)
    /\ name = <<"pair">> =>
         /\ setup.dependencies[<<"dicon">>] = <<"7">>
         /\ setup.devDependencies[<<"dicon">>] = <<"3">>

\* pair declares dicon@7 at runtime, icon declares dicon@3 for development,
\* and the caller passes {x: '2.0.0'}.
C18_Witness ==
  /\ pc = "done" /\ name = <<"pair">>
  /\ <<"icon">> \in loaded
  /\ demoDependencies.defined
  /\ <<"2.0.0">> \in DOMAIN setup.dependencies
  /\ <<"2.0.0">> \notin DOMAIN setup.devDependencies
  /\ setup.dependencies[<<"dicon">>] = <<"7">>
  /\ setup.devDependencies[<<"dicon">>] = <<"3">>

====
